---------------------------- MODULE Spec2Model ----------------------------
(***************************************************************************)
(* A model of the public API of CDT (constrained Delaunay triangulation): *)
(*   - layer peeling, CalculateTriangleDepths / PeelLayer   (CDT.hpp)      *)
(*   - duplicate removal and edge remapping        (CDT.h, CDT.hpp)        *)
(*   - Triangulation::insertVertices / insertEdges (Triangulation.h)       *)
(* Indices are 0-based as in the source: vectors are functions on 0..n-1.  *)
(***************************************************************************)
EXTENDS Integers, Sequences, FiniteSets, TLC

(***************************************************************************)
(* Bounds of the model.                                                    *)
(***************************************************************************)
\* largest number of triangles around the hub of a generated input mesh
MaxWheel == 4
\* largest overlap count given to a fixed edge (besides the type's maximum)
MaxOverlap == 2
\* largest number of insertEdges calls made on one triangulation
MaxBatches == 3
\* largest number of vertices given to one insertVertices call
MaxNew == 3
\* largest number of insertVertices calls made in one process
MaxVertexCalls == 3
\* largest number of vertices given to FindDuplicates
MaxDupVerts == 5

(***************************************************************************)
(* Program constants.                                                      *)
(***************************************************************************)
\* std::numeric_limits<LayerDepth>::max(): the initial, 'infinite' depth.
\* LayerDepth (and BoundaryOverlapCount, the same type) is unsigned short.
LayerDepthMax == 65535
\* sentinel of an empty neighbour slot
noNeighbor == -1

VARIABLES
    \* ---- CalculateTriangleDepths / PeelLayer ----
    triangles,        \* TriangleVec: [vertices, neighbors] per triangle
    fixedEdges,       \* EdgeUSet
    overlapCount,     \* unordered_map<Edge, BoundaryOverlapCount>
    seed,             \* seed triangle
    useOverlap,       \* TRUE: the overload taking overlapCount
    triDepths,        \* std::vector<LayerDepth>
    seeds,            \* std::stack<TriInd>, top is the last element
    layerDepth,       \* depth of the layer being peeled
    deepestSeedDepth, \* overlap variant only
    seedsByDepth,     \* overlap variant only
    behindBoundary,   \* PeelLayer's result under construction
    steps,            \* loop iterations executed so far
    pc,               \* position in the running operation
    entryDepths,      \* triDepths as the running PeelLayer call found it
    peeled,           \* triangles the running PeelLayer call has popped
    peelCalls,        \* layer depth and seeds of every PeelLayer call so far
    recorded,         \* <<triangle, target depth, layer>> per new seed
    returned,         \* what earlier calls on the same arguments returned
    \* ---- Triangulation::insertEdges, eraseOuterTrianglesAndHoles ----
    nTargetVerts,     \* m_nTargetVerts
    edgesIn,          \* the range [first, last) given to insertEdges
    first,            \* number of edges of the range already passed
    calls,            \* private methods called by the running insertEdges
    inserted,         \* per edge, how often it was given to insertEdge
    nBatches,         \* insertEdges calls made so far
    toErase,          \* triangles eraseOuterTrianglesAndHoles removes
    \* ---- Triangulation::insertVertices, randomCDT ----
    g,                \* randomCDT's static mt19937: outputs drawn so far
    shuffleImpl,      \* the standard library's random_shuffle
    instances,        \* the Triangulation objects of the process
    \* ---- FindDuplicates, RemoveDuplicates, RemapEdges ----
    dupVertices,      \* the vertex vector, changed in place
    dupEdges,         \* the edge vector, changed in place
    verticesIn,       \* the vertex vector as it was given
    edgesGiven,       \* the edge vector as it was given
    di,               \* DuplicatesInfo: mapping, duplicates
    iIn,              \* FindDuplicates: index of the vertex looked at
    iOut,             \* FindDuplicates: vertices found unique so far
    uniqueVerts,      \* FindDuplicates: position -> index after removal
    dupPc             \* position in RemoveDuplicatesAndRemapEdges

depthVars == <<triangles, fixedEdges, overlapCount, seed, useOverlap,
               triDepths, seeds, layerDepth, deepestSeedDepth, seedsByDepth,
               behindBoundary, steps, pc, entryDepths, peeled, peelCalls,
               recorded, returned>>

\* what is kept about the course of a depth calculation
depthHistory == <<entryDepths, peeled, peelCalls, recorded, returned>>

edgeVars == <<nTargetVerts, edgesIn, first, calls, inserted, nBatches, toErase>>

vertVars == <<g, shuffleImpl, instances>>

dupVars == <<dupVertices, dupEdges, verticesIn, edgesGiven, di, iIn, iOut,
             uniqueVerts, dupPc>>

vars == <<depthVars, edgeVars, vertVars, dupVars>>

\* what the depth calculation leaves alone
notDepth == <<edgeVars, vertVars, dupVars>>

(***************************************************************************)
(* Helpers on values.                                                      *)
(***************************************************************************)
Max2(a, b) == IF a >= b THEN a ELSE b

Min2(a, b) == IF a <= b THEN a ELSE b

EmptyMap == [x \in {} |-> 0]

\* all orders in which the elements of a set can be iterated
Orders(S) ==
    {q \in [1..Cardinality(S) -> S] : \A x \in S : \E k \in DOMAIN q : q[k] = x}

\* conversion of an int expression to LayerDepth (unsigned, wraps)
ToLayerDepth(x) == x % (LayerDepthMax + 1)

(***************************************************************************)
(* Geometry records (CDTUtils.h is not part of the sources at hand; the   *)
(* data model is that of the specification, section 3).                    *)
(***************************************************************************)
\* Edge: unordered pair of vertex indices, lower index first
Edge(a, b) == IF a < b THEN <<a, b>> ELSE <<b, a>>

ccw(i) == (i + 1) % 3

cw(i) == (i + 2) % 3

\* index of the neighbour slot across the edge opposite vertex slot i
opoNbr(i) == i

\* the edge of triangle t opposite its vertex slot i
OpEdgeWrongSlot(t, i) == Edge(t.vertices[i], t.vertices[ccw(i)])

OpEdge(t, i) == Edge(t.vertices[ccw(i)], t.vertices[cw(i)])

\* neighbour links of a set of vertex triples: the other triangle holding
\* the two vertices of the edge opposite slot i, or noNeighbor
LinkTriangles(vs) ==
    [iT \in DOMAIN vs |->
        [vertices  |-> vs[iT],
         neighbors |->
            [i \in 0..2 |->
                LET e == {vs[iT][ccw(i)], vs[iT][cw(i)]}
                    others == {iN \in DOMAIN vs \ {iT} :
                                  e \subseteq {vs[iN][k] : k \in 0..2}}
                IN  IF others = {} THEN noNeighbor
                    ELSE CHOOSE iN \in others : TRUE]]]

Triple(a, b, c) == [i \in 0..2 |-> IF i = 0 THEN a ELSE IF i = 1 THEN b ELSE c]

\* n triangles around hub vertex 0, rim vertices 1..n (n = 3: the mesh
\* after inserting one vertex into the super-triangle)
Wheel(n) ==
    LinkTriangles([iT \in 0..(n - 1) |-> Triple(0, iT + 1, ((iT + 1) % n) + 1)])

\* the vertices of a triangle, and the edge two neighbouring triangles share
VerticesOf(t) == {t.vertices[k] : k \in 0..2}

NeighborsOf(t) == {t.neighbors[k] : k \in 0..2} \ {noNeighbor}

SharedEdge(t, n) ==
    LET c == VerticesOf(t) \cap VerticesOf(n)
        a == CHOOSE x \in c : \A y \in c : x <= y
        b == CHOOSE x \in c : \A y \in c : x >= y
    IN  Edge(a, b)

\* edges shared by two triangles
InteriorEdges(tris) ==
    {SharedEdge(tris[iT], tris[iN]) :
        <<iT, iN>> \in {p \in (DOMAIN tris) \X (DOMAIN tris) :
                           p[2] \in NeighborsOf(tris[p[1]])}}

(***************************************************************************)
(* PeelLayer (both overloads), one popped seed per step.                   *)
(***************************************************************************)
\* depth recorded for the triangle behind fixed edge e, overlap variant
BehindDepthIgnoringOverlap(d, e) == ToLayerDepth(d + 1)

BehindDepth(d, e) ==
    IF e \notin DOMAIN overlapCount
        THEN ToLayerDepth(d + 1)
        ELSE ToLayerDepth(d + overlapCount[e] + 1)

\* the neighbour needs no visit from this layer
SkipNeighbor(iN, depths, d) == iN = noNeighbor \/ depths[iN] <= d

\* map insert-or-assign, map/set erase
MapPut(m, k, v) == [x \in DOMAIN m \cup {k} |-> IF x = k THEN v ELSE m[x]]

MapErase(m, k) == [x \in DOMAIN m \ {k} |-> m[x]]

\* one iteration of the for loop over the three edges of triangle iT;
\* st = [seeds, behind], depths = triDepths after the assignment to iT
PeelEdge(st, iT, i, depths) ==
    LET t      == triangles[iT]
        opEdge == OpEdge(t, i)
        iN     == t.neighbors[opoNbr(i)]
    IN  IF SkipNeighbor(iN, depths, layerDepth) THEN st
        ELSE IF opEdge \in fixedEdges
            THEN [st EXCEPT !.behind =
                    IF useOverlap
                        THEN MapPut(st.behind, iN, BehindDepth(layerDepth, opEdge))
                        ELSE st.behind \cup {iN}]
            ELSE [st EXCEPT !.seeds = Append(st.seeds, iN)]

\* behindBoundary.erase(iT) left out
EraseBehindNever(b, iT) == b

EraseBehind(b, iT) == IF useOverlap THEN MapErase(b, iT) ELSE b \ {iT}

PeelSeed ==
    /\ pc = "peel"
    /\ seeds # <<>>
    /\ LET iT     == seeds[Len(seeds)]
           depths == [triDepths EXCEPT ![iT] = layerDepth]
           st0    == [seeds  |-> SubSeq(seeds, 1, Len(seeds) - 1),
                      behind |-> EraseBehind(behindBoundary, iT)]
           st3    == PeelEdge(PeelEdge(PeelEdge(st0, iT, 0, depths),
                                       iT, 1, depths), iT, 2, depths)
       IN  /\ triDepths' = depths
           /\ seeds' = st3.seeds
           /\ behindBoundary' = st3.behind
           /\ peeled' = peeled \cup {iT}
    /\ steps' = steps + 1
    /\ UNCHANGED <<triangles, fixedEdges, overlapCount, seed, useOverlap,
                   layerDepth, deepestSeedDepth, seedsByDepth, pc, notDepth>>
    /\ UNCHANGED <<entryDepths, peelCalls, recorded, returned>>

(***************************************************************************)
(* CalculateTriangleDepths: the loop body after PeelLayer returned.        *)
(***************************************************************************)
\* seedsByDepth when the new seeds of a target depth replace its set
RecordSeedsReplacing(byDepth, newSeeds) ==
    LET targets == {newSeeds[iT] : iT \in DOMAIN newSeeds}
    IN  [d \in DOMAIN byDepth \cup targets |->
            IF d \in targets THEN {iT \in DOMAIN newSeeds : newSeeds[iT] = d}
                             ELSE byDepth[d]]

\* seedsByDepth after recording the new seeds (insert into the set keyed by
\* each seed's target depth, creating the set when absent)
RecordSeeds(byDepth, newSeeds) ==
    LET targets == {newSeeds[iT] : iT \in DOMAIN newSeeds}
    IN  [d \in DOMAIN byDepth \cup targets |->
            (IF d \in DOMAIN byDepth THEN byDepth[d] ELSE {})
                \cup {iT \in DOMAIN newSeeds : newSeeds[iT] = d}]

DeepestSeed(deepest, newSeeds) ==
    IF DOMAIN newSeeds = {} THEN deepest
    ELSE Max2(deepest,
              CHOOSE m \in {newSeeds[iT] : iT \in DOMAIN newSeeds} :
                  \A iT \in DOMAIN newSeeds : newSeeds[iT] <= m)

\* the do-while condition of the overlap variant
ContinueWhileSeedsOnly(nextSeeds, deepest, depth) == nextSeeds # <<>>

\* the do-while condition without its first operand
ContinueWhileDeeperOnly(nextSeeds, deepest, depth) == deepest > depth

ContinueOverlap(nextSeeds, deepest, depth) ==
    nextSeeds # <<>> \/ deepest > depth

\* the call of PeelLayer at the top of the next iteration, if there is one
NextPeelCall(continue, depth, nextSeeds) ==
    IF continue
        THEN Append(peelCalls,
                    [layerDepth |-> depth,
                     seeds      |-> {nextSeeds[k] : k \in DOMAIN nextSeeds}])
        ELSE peelCalls

\* overlap variant, CDT.hpp lines 140-151
LayerEndOverlap ==
    /\ pc = "peel"
    /\ seeds = <<>>
    /\ useOverlap
    /\ LET newSeeds == behindBoundary
           byDepth1 == RecordSeeds(MapErase(seedsByDepth, layerDepth), newSeeds)
           nextKey  == ToLayerDepth(layerDepth + 1)
           byDepth2 == IF nextKey \in DOMAIN byDepth1 THEN byDepth1
                       ELSE MapPut(byDepth1, nextKey, {})
           deepest  == DeepestSeed(deepestSeedDepth, newSeeds)
       IN  /\ seedsByDepth' = byDepth2
           /\ deepestSeedDepth' = deepest
           /\ seeds' \in Orders(byDepth2[nextKey])
           /\ layerDepth' = ToLayerDepth(layerDepth + 1)
           /\ pc' = IF ContinueOverlap(seeds', deepest, layerDepth')
                        THEN "peel" ELSE "done"
           /\ recorded' = recorded \cup
                             {<<iT, newSeeds[iT], layerDepth>> :
                                 iT \in DOMAIN newSeeds}
    /\ behindBoundary' = EmptyMap
    /\ steps' = steps + 1
    /\ entryDepths' = triDepths
    /\ peeled' = {}
    /\ peelCalls' = NextPeelCall(pc' = "peel", layerDepth', seeds')
    /\ UNCHANGED <<triangles, fixedEdges, overlapCount, seed, useOverlap,
                   triDepths, returned, notDepth>>

\* variant without overlap counts, CDT.hpp lines 166-171; layerDepth here is
\* PeelLayer's parameter, the caller's post-increment shows at the next call
LayerEndPlain ==
    /\ pc = "peel"
    /\ seeds = <<>>
    /\ ~useOverlap
    /\ seeds' \in Orders(behindBoundary)
    /\ layerDepth' = ToLayerDepth(layerDepth + 1)
    /\ pc' = IF seeds' # <<>> THEN "peel" ELSE "done"
    /\ behindBoundary' = {}
    /\ steps' = steps + 1
    /\ entryDepths' = triDepths
    /\ peeled' = {}
    /\ peelCalls' = NextPeelCall(pc' = "peel", layerDepth', seeds')
    /\ UNCHANGED <<triangles, fixedEdges, overlapCount, seed, useOverlap,
                   triDepths, deepestSeedDepth, seedsByDepth, recorded,
                   returned, notDepth>>

(***************************************************************************)
(* Inputs of CalculateTriangleDepths.                                      *)
(***************************************************************************)
\* the wheel of three triangles and one triangle no neighbour link leads to
WheelAndIsland ==
    LinkTriangles([iT \in 0..3 |->
        IF iT < 3 THEN Triple(0, iT + 1, ((iT + 1) % 3) + 1) ELSE Triple(4, 5, 6)])

Meshes == {Wheel(n) : n \in 3..MaxWheel} \cup {WheelAndIsland}

\* the wheels look the same from each of their triangles: seeds are the
\* first and the last triangle (the island, in WheelAndIsland)
SeedChoices(tris) == {0, Cardinality(DOMAIN tris) - 1}

OverlapValues == (1..MaxOverlap) \cup {LayerDepthMax}

\* locals of CalculateTriangleDepths at its entry: lines 128-134 / 161-164
EnterDepths(tris, s) ==
    [triDepths        |-> [iT \in DOMAIN tris |-> LayerDepthMax],
     seeds            |-> <<s>>,
     layerDepth       |-> 0,
     deepestSeedDepth |-> 0,
     seedsByDepth     |-> EmptyMap,
     \* the first PeelLayer call, about to run
     entryDepths      |-> [iT \in DOMAIN tris |-> LayerDepthMax],
     peeled           |-> {},
     peelCalls        |-> <<[layerDepth |-> 0, seeds |-> {s}]>>,
     recorded         |-> {}]

\* no insertVertices call, no duplicate removal
NoVertexCalls ==
    /\ g = 0
    /\ shuffleImpl = "libstdc++"
    /\ instances = <<>>

NoDuplicateCalls ==
    /\ dupVertices = <<>>
    /\ dupEdges = <<>>
    /\ verticesIn = <<>>
    /\ edgesGiven = <<>>
    /\ di = [mapping |-> <<>>, duplicates |-> <<>>]
    /\ iIn = 0
    /\ iOut = 0
    /\ uniqueVerts = EmptyMap
    /\ dupPc = "idle"

\* no depth calculation
NoDepthCall ==
    /\ triangles = <<>>
    /\ fixedEdges = {}
    /\ overlapCount = EmptyMap
    /\ useOverlap = TRUE
    /\ seed = 0
    /\ triDepths = <<>>
    /\ seeds = <<>>
    /\ layerDepth = 0
    /\ deepestSeedDepth = 0
    /\ seedsByDepth = EmptyMap
    /\ behindBoundary = EmptyMap
    /\ steps = 0
    /\ pc = "idle"
    /\ entryDepths = <<>>
    /\ peeled = {}
    /\ peelCalls = <<>>
    /\ recorded = {}
    /\ returned = <<>>

\* a Triangulation no edge was inserted into
NoEdgeCalls ==
    /\ nTargetVerts = 0
    /\ edgesIn = <<>>
    /\ first = 0
    /\ calls = <<>>
    /\ inserted = EmptyMap
    /\ nBatches = 0
    /\ toErase = <<>>

\* a call of CalculateTriangleDepths on given arguments
InitDepth ==
    /\ triangles \in Meshes
    /\ seed \in SeedChoices(triangles)
    /\ fixedEdges \in SUBSET InteriorEdges(triangles)
    /\ useOverlap \in BOOLEAN
    /\ overlapCount \in
          IF useOverlap
              THEN UNION {[S -> OverlapValues] : S \in SUBSET fixedEdges}
              ELSE {EmptyMap}
    /\ LET l == EnterDepths(triangles, seed)
       IN  /\ triDepths = l.triDepths
           /\ seeds = l.seeds
           /\ layerDepth = l.layerDepth
           /\ deepestSeedDepth = l.deepestSeedDepth
           /\ seedsByDepth = l.seedsByDepth
           /\ entryDepths = l.entryDepths
           /\ peeled = l.peeled
           /\ peelCalls = l.peelCalls
           /\ recorded = l.recorded
    /\ returned = <<>>
    /\ behindBoundary = IF useOverlap THEN EmptyMap ELSE {}
    /\ steps = 0
    /\ pc = "peel"
    /\ NoEdgeCalls
    /\ NoVertexCalls
    /\ NoDuplicateCalls

NextDepth == PeelSeed \/ LayerEndOverlap \/ LayerEndPlain

SpecDepth == InitDepth /\ [][NextDepth]_vars

(***************************************************************************)
(* Triangulation: insertEdges and eraseOuterTrianglesAndHoles.             *)
(* Triangulation.hpp (insertEdge, fixEdge, eraseDummies and the erasure    *)
(* passes) is not part of the sources at hand: these follow sections 4.2,  *)
(* 4.4 and 4.6 of the specification.                                       *)
(***************************************************************************)
\* the six triangles between an outer and an inner triangle
Ring(o, i) ==
    <<Triple(o[1], o[2], i[1]), Triple(o[2], i[2], i[1]),
      Triple(o[2], o[3], i[2]), Triple(o[3], i[3], i[2]),
      Triple(o[3], o[1], i[3]), Triple(o[1], i[1], i[3])>>

\* super-triangle 0 1 2 around the boundary 3 4 5 around the hole 6 7 8:
\* the triangulation of six vertices before any edge is inserted
NestedMesh ==
    LET vs == Ring(<<0, 1, 2>>, <<3, 4, 5>>) \o Ring(<<3, 4, 5>>, <<6, 7, 8>>)
                  \o <<Triple(6, 7, 8)>>
    IN  LinkTriangles([iT \in 0..(Len(vs) - 1) |-> vs[iT + 1]])

\* number of super-triangle vertices, which precede the user's vertices
SuperTriangleVerts == 3

\* the boundary and the hole, in the user's vertex indices
OuterLoop == <<<<0, 1>>, <<1, 2>>, <<2, 0>>>>

HoleLoop == <<<<3, 4>>, <<4, 5>>, <<5, 3>>>>

\* an edge of the boundary, one of the hole (end before start), one between
EdgeChoices == {<<0, 1>>, <<4, 3>>, <<0, 3>>}

\* the ranges given to insertEdges
Batches ==
    {<<>>, OuterLoop, HoleLoop}
        \cup {<<e>> : e \in EdgeChoices}
        \cup {<<e, f>> : e \in EdgeChoices, f \in EdgeChoices}

\* the edge insertEdges hands to insertEdge: line 324-326
TargetEdgeNoOffset(e) == Edge(e[1], e[2])

TargetEdge(e) == Edge(e[1] + nTargetVerts, e[2] + nTargetVerts)

\* the for loop's condition, negated: line 321
LoopDoneOneEarly(i, last) == i + 1 >= last

LoopDone(i, last) == i = last

IsTriangulationEdge(e) ==
    \E iT \in DOMAIN triangles : {e[1], e[2]} \subseteq VerticesOf(triangles[iT])

\* fixEdge: insert into fixedEdges; if already present, increment the count
FixEdge(e) ==
    IF e \notin fixedEdges
        THEN /\ fixedEdges' = fixedEdges \cup {e}
             /\ overlapCount' = overlapCount
        ELSE /\ fixedEdges' = fixedEdges
             /\ overlapCount' =
                   MapPut(overlapCount, e,
                          ToLayerDepth((IF e \in DOMAIN overlapCount
                                           THEN overlapCount[e] ELSE 0) + 1))

\* insertEdge of an edge the triangulation has (section 4.4, step 1); the
\* walk and retriangulation for any other edge are not modelled
InsertEdge(e) ==
    IF IsTriangulationEdge(e) THEN FixEdge(e)
    ELSE UNCHANGED <<fixedEdges, overlapCount>>

\* insertEdges is called
InsertEdgesCall ==
    /\ pc = "idle"
    /\ nBatches < MaxBatches
    /\ edgesIn' \in Batches
    /\ first' = 0
    /\ calls' = <<>>
    /\ nBatches' = nBatches + 1
    /\ pc' = "insertEdges"
    /\ UNCHANGED <<triangles, fixedEdges, overlapCount, seed, useOverlap,
                   triDepths, seeds, layerDepth, deepestSeedDepth, seedsByDepth,
                   behindBoundary, steps, nTargetVerts, inserted, toErase>>
    /\ UNCHANGED depthHistory
    /\ UNCHANGED <<vertVars, dupVars>>

\* one iteration of the loop of insertEdges: lines 321-327
InsertEdgeStep ==
    /\ pc = "insertEdges"
    /\ ~LoopDone(first, Len(edgesIn))
    /\ LET e == TargetEdge(edgesIn[first + 1])
           u == Edge(edgesIn[first + 1][1] + SuperTriangleVerts,
                     edgesIn[first + 1][2] + SuperTriangleVerts)
       IN  /\ calls' = Append(calls, <<"insertEdge", e>>)
           /\ InsertEdge(e)
           /\ inserted' = MapPut(inserted, u,
                                 (IF u \in DOMAIN inserted THEN inserted[u] ELSE 0) + 1)
    /\ first' = first + 1
    /\ UNCHANGED <<triangles, seed, useOverlap, triDepths, seeds, layerDepth,
                   deepestSeedDepth, seedsByDepth, behindBoundary, steps, pc,
                   nTargetVerts, edgesIn, nBatches, toErase>>
    /\ UNCHANGED depthHistory
    /\ UNCHANGED <<vertVars, dupVars>>

\* the loop is left, eraseDummies, return: line 328 (no triangle is a dummy
\* when every inserted edge was an edge of the triangulation)
EraseDummiesStep ==
    /\ pc = "insertEdges"
    /\ LoopDone(first, Len(edgesIn))
    /\ calls' = Append(calls, <<"eraseDummies">>)
    /\ pc' = "idle"
    /\ UNCHANGED <<triangles, fixedEdges, overlapCount, seed, useOverlap,
                   triDepths, seeds, layerDepth, deepestSeedDepth, seedsByDepth,
                   behindBoundary, steps, nTargetVerts, edgesIn, first, inserted,
                   nBatches, toErase>>
    /\ UNCHANGED depthHistory
    /\ UNCHANGED <<vertVars, dupVars>>

\* eraseOuterTrianglesAndHoles is called: the depth map is computed from a
\* triangle at the super-triangle's first vertex
EraseOuterTrianglesAndHolesCall ==
    /\ pc = "idle"
    /\ \E s \in {iT \in DOMAIN triangles : 0 \in VerticesOf(triangles[iT])} :
          LET l == EnterDepths(triangles, s)
          IN  /\ seed' = s
              /\ triDepths' = l.triDepths
              /\ seeds' = l.seeds
              /\ layerDepth' = l.layerDepth
              /\ deepestSeedDepth' = l.deepestSeedDepth
              /\ seedsByDepth' = l.seedsByDepth
              /\ entryDepths' = l.entryDepths
              /\ peeled' = l.peeled
              /\ peelCalls' = l.peelCalls
              /\ recorded' = l.recorded
    /\ returned' = <<>>
    /\ behindBoundary' = EmptyMap
    /\ steps' = 0
    /\ pc' = "peel"
    \* nothing of the last insertEdges call is left but its effect
    /\ edgesIn' = <<>> /\ first' = 0 /\ calls' = <<>>
    /\ UNCHANGED <<triangles, fixedEdges, overlapCount, useOverlap,
                   nTargetVerts, inserted, nBatches, toErase>>
    /\ UNCHANGED <<vertVars, dupVars>>

\* the depth map is there: every triangle of even depth is to go
EvenDepths(depths) ==
    {iT \in DOMAIN depths : depths[iT] % 2 = 0}

RECURSIVE Ascending(_)
Ascending(S) ==
    IF S = {} THEN <<>>
    ELSE LET m == CHOOSE x \in S : \A y \in S : x <= y
         IN  <<m>> \o Ascending(S \ {m})

EraseEven ==
    /\ pc = "done"
    /\ toErase' = Ascending(EvenDepths(triDepths))
    /\ pc' = "erased"
    /\ UNCHANGED <<triangles, fixedEdges, overlapCount, seed, useOverlap,
                   triDepths, seeds, layerDepth, deepestSeedDepth, seedsByDepth,
                   behindBoundary, steps, nTargetVerts, edgesIn, first, calls,
                   inserted, nBatches>>
    /\ UNCHANGED depthHistory
    /\ UNCHANGED <<vertVars, dupVars>>

\* a triangulation of the six vertices with its super-triangle
InitEdges ==
    /\ triangles = NestedMesh
    /\ fixedEdges = {}
    /\ overlapCount = EmptyMap
    /\ useOverlap = TRUE
    /\ seed = 0
    /\ triDepths = <<>>
    /\ seeds = <<>>
    /\ layerDepth = 0
    /\ deepestSeedDepth = 0
    /\ seedsByDepth = EmptyMap
    /\ behindBoundary = EmptyMap
    /\ steps = 0
    /\ pc = "idle"
    /\ entryDepths = <<>>
    /\ peeled = {}
    /\ peelCalls = <<>>
    /\ recorded = {}
    /\ returned = <<>>
    /\ nTargetVerts = SuperTriangleVerts
    /\ edgesIn = <<>>
    /\ first = 0
    /\ calls = <<>>
    /\ inserted = EmptyMap
    /\ nBatches = 0
    /\ toErase = <<>>
    /\ NoVertexCalls
    /\ NoDuplicateCalls

NextEdges ==
    \/ InsertEdgesCall
    \/ InsertEdgeStep
    \/ EraseDummiesStep
    \/ EraseOuterTrianglesAndHolesCall
    \/ PeelSeed
    \/ LayerEndOverlap
    \/ EraseEven

SpecEdges == InitEdges /\ [][NextEdges]_vars

(***************************************************************************)
(* Triangulation::insertVertices and randomCDT.                            *)
(* addSuperTriangle, addNewVertex and insertVertex are in                  *)
(* Triangulation.hpp, which is not part of the sources at hand: the first  *)
(* two append to the vertex vector (specification, sections 4.1 and 4.3),  *)
(* and of insertVertex only the call, with its argument, is recorded.      *)
(***************************************************************************)
\* the first outputs of std::mt19937 seeded with 9001, each one written as
\* <<high 16 bits, low 16 bits>>
MT9001 ==
    << <<6042, 43065>>,  <<35053, 51964>>, <<55748, 21413>>,
       <<50242, 32286>>, <<59031, 36679>>, <<56730, 50471>>,
       <<38903, 2238>>,  <<32917, 45272>>, <<55623, 57401>>,
       <<25112, 1749>>,  <<8716, 30013>>,  <<12939, 28363>>,
       <<32905, 23766>>, <<41226, 46551>>, <<50329, 25870>>,
       <<53838, 45556>> >>

\* g() % i, for the generator that has produced 'drawn' outputs so far
randomCDT(drawn, i) ==
    LET out == MT9001[drawn + 1]
    IN  ((out[1] % i) * (65536 % i) + (out[2] % i)) % i

\* element i of a vector kept as a sequence
At(v, i) == v[i + 1]

Swap(v, i, j) == [v EXCEPT ![i + 1] = v[j + 1], ![j + 1] = v[i + 1]]

\* std::random_shuffle(first, last, rand) of libstdc++:
\*   for (i = first + 1; i != last; ++i) swap(*i, first[rand((i - first) + 1)])
RECURSIVE ShuffleLibstdcxx(_, _, _)
ShuffleLibstdcxx(ii, i, drawn) ==
    IF i >= Len(ii)
    THEN [ii |-> ii, g |-> drawn]
    ELSE ShuffleLibstdcxx(Swap(ii, i, randomCDT(drawn, i + 1)), i + 1,
                          drawn + 1)

\* std::random_shuffle(first, last, rand) of libc++:
\*   for (d = last - first, --last; first < last; ++first, --d)
\*       swap(*first, first[rand(d)])
RECURSIVE ShuffleLibcxx(_, _, _)
ShuffleLibcxx(ii, from, drawn) ==
    IF Len(ii) - from <= 1
    THEN [ii |-> ii, g |-> drawn]
    ELSE ShuffleLibcxx(Swap(ii, from, from + randomCDT(drawn, Len(ii) - from)),
                       from + 1, drawn + 1)

StdLibraries == {"libstdc++", "libc++"}

random_shuffle(ii, drawn) ==
    IF shuffleImpl = "libstdc++"
    THEN ShuffleLibstdcxx(ii, 1, drawn)
    ELSE ShuffleLibcxx(ii, 0, drawn)

VertexInsertionOrder == {"Randomized", "AsProvided"}

\* the three vertices addSuperTriangle appends
SuperTriangle == << <<-1, 0>>, <<-1, 1>>, <<-1, 2>> >>

\* n input vertices, different from every vertex the mesh holds
NewVertices(n, nExistingVerts) == [k \in 1..n |-> <<k - 1, nExistingVerts>>]

\* ii filled from 0: the offset of the existing vertices left out
IotaFromZero(nExistingVerts, n) == [k \in 1..n |-> k - 1]

\* ii after 'for(...; ++it, ++value) *it = value', value from nExistingVerts
Iota(nExistingVerts, n) == [k \in 1..n |-> nExistingVerts + (k - 1)]

\* the arguments of insertVertex in the AsProvided loop
AsProvidedOrder(nExistingVerts, n) ==
    [k \in 1..n |-> nExistingVerts + (k - 1)]

VertexCallsMade == Len(instances[1].log) + Len(instances[2].log)

\* Triangulation::insertVertices on instance t, given n vertices
InsertVertices(t, n) ==
    LET me             == instances[t]
        base           == IF me.vertices = <<>> THEN SuperTriangle
                                                ELSE me.vertices
        nExistingVerts == Len(base)
        given          == NewVertices(n, nExistingVerts)
        sh             == IF me.vertexInsertionOrder = "AsProvided"
                          THEN [ii |-> AsProvidedOrder(nExistingVerts, n),
                                g  |-> g]
                          ELSE random_shuffle(Iota(nExistingVerts, n), g)
    IN  /\ VertexCallsMade < MaxVertexCalls
        /\ instances' = [instances EXCEPT ![t] =
               [vertexInsertionOrder |-> me.vertexInsertionOrder,
                vertices    |-> base \o given,
                given       |-> Append(me.given, given),
                log         |-> Append(me.log,
                                  [nExistingVerts |-> nExistingVerts,
                                   insertVertex   |-> sh.ii])]]
        /\ g' = sh.g
        /\ UNCHANGED <<shuffleImpl, depthVars, edgeVars, dupVars>>

InsertVerticesCall ==
    \E t \in 1..2 : \E n \in 0..MaxNew : InsertVertices(t, n)

\* two triangulations of one process, nothing inserted yet
InitVerts ==
    /\ g = 0
    /\ shuffleImpl \in StdLibraries
    /\ \E order \in [1..2 -> VertexInsertionOrder] :
          instances = [t \in 1..2 |->
              [vertexInsertionOrder |-> order[t],
               vertices |-> <<>>,
               given    |-> <<>>,
               log      |-> <<>>]]
    /\ NoDepthCall
    /\ NoEdgeCalls
    /\ NoDuplicateCalls

NextVerts == InsertVerticesCall

SpecVerts == InitVerts /\ [][NextVerts]_vars

(***************************************************************************)
(* FindDuplicates, RemoveDuplicates, RemapEdges and their composition      *)
(* RemoveDuplicatesAndRemapEdges.  remove_at.hpp is not part of the        *)
(* sources at hand: remove_at is the in-place removal of the listed        *)
(* indices that keeps the order of the rest (specification, section 6).    *)
(***************************************************************************)
\* vertex positions: pairs that share x, share y, share both or neither
Points == {<<0, 0>>, <<1, 0>>, <<0, 1>>, <<1, 1>>}

VertexLists == UNION {[1..n -> Points] : n \in 0..MaxDupVerts}

\* every Edge over n vertices, in lexicographic order
RECURSIVE AllEdges(_, _, _)
AllEdges(a, b, n) ==
    IF a >= n - 1 THEN <<>>
    ELSE IF b >= n THEN AllEdges(a + 1, a + 2, n)
    ELSE <<Edge(a, b)>> \o AllEdges(a, b + 1, n)

Reverse(s) == [k \in 1..Len(s) |-> s[Len(s) + 1 - k]]

EdgeLists(n) == {<<>>, AllEdges(0, 1, n), Reverse(AllEdges(0, 1, n))}

\* iOut after the vertex was looked at, incremented whether unique or not
NextOutAlways(isUnique, out) == out + 1

\* iOut after the vertex was looked at: 'iOut++' on the unique branch only
NextOut(isUnique, out) == IF isUnique THEN out + 1 ELSE out

\* one iteration of the loop of FindDuplicates
FindDuplicatesStep ==
    /\ dupPc = "find"
    /\ iIn < Len(dupVertices)
    /\ LET pos      == At(dupVertices, iIn)
           isUnique == pos \notin DOMAIN uniqueVerts
           it       == IF isUnique THEN iOut ELSE uniqueVerts[pos]
       IN  /\ uniqueVerts' = IF isUnique THEN MapPut(uniqueVerts, pos, iOut)
                                         ELSE uniqueVerts
           /\ di' = [mapping    |-> [di.mapping EXCEPT ![iIn + 1] = it],
                     duplicates |-> IF isUnique THEN di.duplicates
                                    ELSE Append(di.duplicates, iIn)]
           /\ iOut' = NextOut(isUnique, iOut)
    /\ iIn' = iIn + 1
    /\ UNCHANGED <<dupVertices, dupEdges, verticesIn, edgesGiven, dupPc>>
    /\ UNCHANGED <<depthVars, edgeVars, vertVars>>

\* the loop of FindDuplicates ends, di is returned
FindDuplicatesReturn ==
    /\ dupPc = "find"
    /\ iIn >= Len(dupVertices)
    /\ dupPc' = "remove"
    /\ UNCHANGED <<dupVertices, dupEdges, verticesIn, edgesGiven, di, iIn,
                   iOut, uniqueVerts>>
    /\ UNCHANGED <<depthVars, edgeVars, vertVars>>

\* remove_at followed by erase: the elements at the listed indices removed
RemoveAt(v, indices) ==
    LET dropped == {indices[k] : k \in 1..Len(indices)}
        all     == [k \in 1..Len(v) |-> k - 1]
        kept    == SelectSeq(all, LAMBDA i : i \notin dropped)
    IN  [k \in 1..Len(kept) |-> At(v, kept[k])]

RemoveDuplicatesCall ==
    /\ dupPc = "remove"
    /\ dupVertices' = RemoveAt(dupVertices, di.duplicates)
    /\ dupPc' = "remap"
    /\ UNCHANGED <<dupEdges, verticesIn, edgesGiven, di, iIn, iOut,
                   uniqueVerts>>
    /\ UNCHANGED <<depthVars, edgeVars, vertVars>>

\* an edge list whose first endpoints only went through the mapping
RemapFirstEndpointOnly(edges, mapping) ==
    [k \in 1..Len(edges) |-> Edge(At(mapping, edges[k][1]), edges[k][2])]

\* RemapEdges: '*it = Edge(mapping[it->v1()], mapping[it->v2()])'
RemapEdges(edges, mapping) ==
    [k \in 1..Len(edges) |->
        Edge(At(mapping, edges[k][1]), At(mapping, edges[k][2]))]

RemapEdgesCall ==
    /\ dupPc = "remap"
    /\ dupEdges' = RemapEdges(dupEdges, di.mapping)
    /\ dupPc' = "done"
    /\ UNCHANGED <<dupVertices, verticesIn, edgesGiven, di, iIn, iOut,
                   uniqueVerts>>
    /\ UNCHANGED <<depthVars, edgeVars, vertVars>>

\* RemoveDuplicatesAndRemapEdges entered, FindDuplicates about to loop
InitDup ==
    /\ verticesIn \in VertexLists
    /\ edgesGiven \in EdgeLists(Len(verticesIn))
    /\ dupVertices = verticesIn
    /\ dupEdges = edgesGiven
    /\ di = [mapping    |-> [k \in 1..Len(verticesIn) |-> 0],
             duplicates |-> <<>>]
    /\ iIn = 0
    /\ iOut = 0
    /\ uniqueVerts = EmptyMap
    /\ dupPc = "find"
    /\ NoDepthCall
    /\ NoEdgeCalls
    /\ NoVertexCalls

NextDup ==
    \/ FindDuplicatesStep
    \/ FindDuplicatesReturn
    \/ RemoveDuplicatesCall
    \/ RemapEdgesCall

SpecDup == InitDup /\ [][NextDup]_vars

(***************************************************************************)
(* Reference: the cheapest neighbour path from the seed.                   *)
(***************************************************************************)
\* cost of stepping from triangle iT to its neighbour iN
CrossCost(iT, iN) ==
    LET e == SharedEdge(triangles[iT], triangles[iN])
    IN  IF e \notin fixedEdges THEN 0
        ELSE IF useOverlap /\ e \in DOMAIN overlapCount
            THEN overlapCount[e] + 1
            ELSE 1

\* S and what neighbour links lead to from S at a cost of at most maxCost
RECURSIVE LinkClosure(_, _)
LinkClosure(S, maxCost) ==
    LET N == S \cup {iN \in DOMAIN triangles :
                        \E iT \in S : /\ iN \in NeighborsOf(triangles[iT])
                                       /\ CrossCost(iT, iN) <= maxCost}
    IN  IF N = S THEN S ELSE LinkClosure(N, maxCost)

\* levels[k + 1]: the triangles some neighbour path reaches at a cost <= k;
\* the level of cost c is built from the levels of smaller cost
CostLevel(levels) ==
    LET c == Len(levels)
    IN  LinkClosure(
            levels[c] \cup
                {iN \in DOMAIN triangles :
                    \E iT \in DOMAIN triangles :
                        /\ iN \in NeighborsOf(triangles[iT])
                        /\ CrossCost(iT, iN) \in 1..c
                        /\ iT \in levels[c - CrossCost(iT, iN) + 1]},
            0)

RECURSIVE CostLevels(_, _)
CostLevels(levels, maxCost) ==
    IF Len(levels) > maxCost THEN levels
    ELSE CostLevels(Append(levels, CostLevel(levels)), maxCost)

\* no path without a repeated triangle costs more
MaxPathCost == Cardinality(DOMAIN triangles) * (MaxOverlap + 1)

PathCostLevels == CostLevels(<<LinkClosure({seed}, 0)>>, MaxPathCost)

\* the least cost of a neighbour path from the seed to iT (iT reachable)
MinPathCost(levels, iT) ==
    (CHOOSE k \in DOMAIN levels :
        /\ iT \in levels[k]
        /\ \A j \in 1..(k - 1) : iT \notin levels[j]) - 1

\* the triangles neighbour links lead to from the seed
ReachableTris == LinkClosure({seed}, LayerDepthMax + 1)

\* no overlap count is so large that adding it to a layer depth wraps
NoWrap == \A e \in DOMAIN overlapCount : overlapCount[e] <= MaxOverlap

(***************************************************************************)
(* CalculateTriangleDepths called a second time on the same arguments,     *)
(* with either overload.                                                   *)
(***************************************************************************)
\* the first call has returned; its result is kept and a second call is
\* entered: lines 128-134 / 161-164
CallAgain ==
    /\ pc = "done"
    /\ returned = <<>>
    /\ returned' = <<[useOverlap |-> useOverlap, triDepths |-> triDepths]>>
    /\ useOverlap' \in BOOLEAN
    /\ LET l == EnterDepths(triangles, seed)
       IN  /\ triDepths' = l.triDepths
           /\ seeds' = l.seeds
           /\ layerDepth' = l.layerDepth
           /\ deepestSeedDepth' = l.deepestSeedDepth
           /\ seedsByDepth' = l.seedsByDepth
           /\ entryDepths' = l.entryDepths
           /\ peeled' = l.peeled
           /\ peelCalls' = l.peelCalls
           /\ recorded' = l.recorded
    /\ behindBoundary' = IF useOverlap' THEN EmptyMap ELSE {}
    /\ steps' = 0
    /\ pc' = "peel"
    /\ UNCHANGED <<triangles, fixedEdges, overlapCount, seed, notDepth>>

\* arguments whose overlap counts cannot wrap the depth type
InitRepeat == InitDepth /\ NoWrap

NextRepeat == PeelSeed \/ LayerEndOverlap \/ LayerEndPlain \/ CallAgain

SpecRepeat == InitRepeat /\ [][NextRepeat]_vars

(***************************************************************************)
(* C1: without overlap counts, the depth returned for every triangle       *)
(* reachable from the seed is the least number of fixed edges crossed on   *)
(* a neighbour path from the seed.                                         *)
(***************************************************************************)
C1_PlainDepthIsMinCrossings ==
    (pc = "done" /\ ~useOverlap) =>
        LET levels == PathCostLevels
        IN  \A iT \in ReachableTris : triDepths[iT] = MinPathCost(levels, iT)

\* a finished run with the seed's region, a region behind one boundary and
\* a region behind two, the last one reached along two paths
C1_Witness ==
    /\ pc = "done" /\ ~useOverlap
    /\ \E iT \in DOMAIN triangles :
          /\ triDepths[iT] = 2
          /\ Cardinality({iN \in NeighborsOf(triangles[iT]) : triDepths[iN] = 1}) = 2

(***************************************************************************)
(* C2: with overlap counts, the depth returned for every triangle          *)
(* reachable from the seed is the least sum of (overlapCount[e] + 1) over  *)
(* the fixed edges crossed on a neighbour path from the seed. Stated here  *)
(* for overlap counts that cannot wrap the depth type.                     *)
(***************************************************************************)
C2_OverlapDepthIsMinWeightedSum ==
    (pc = "done" /\ useOverlap /\ NoWrap) =>
        LET levels == PathCostLevels
        IN  \A iT \in ReachableTris : triDepths[iT] = MinPathCost(levels, iT)

(***************************************************************************)
(* C10: both variants terminate, and on return every triangle reachable    *)
(* from the seed has a depth other than the initial maximum - provided no  *)
(* overlap count wraps the depth type.                                     *)
(***************************************************************************)
\* a ceiling on the loop iterations of one call: at most 4 pops per triangle
\* and one loop end in each layer, and no layer deeper than every boundary
\* crossed with the largest overlap count
StepCeiling ==
    LET nT == Cardinality(DOMAIN triangles)
    IN  (4 * nT + 1) * (nT * (MaxOverlap + 1) + 2)

BothRandomized ==
    \A t \in 1..2 : instances[t].vertexInsertionOrder = "Randomized"

C3_SameInputsSameSchedule ==
    (BothRandomized /\ instances[1].given = instances[2].given)
        => /\ instances[1].log = instances[2].log
           /\ instances[1].vertices = instances[2].vertices

(***************************************************************************)
(* C4: for every insertVertices call made on a mesh holding nExisting      *)
(* vertices and given n vertices, in either insertion order:               *)
(* vertices[nExisting + k] is the k-th input vertex for every k in [0, n), *)
(* insertVertex was invoked exactly once for every index in                *)
(* [nExisting, nExisting + n) and for no other, and under AsProvided the   *)
(* indices were passed in increasing order.                                *)
(***************************************************************************)
InsertedOnce(order, nExistingVerts, n) ==
    /\ Len(order) = n
    /\ \A iV \in nExistingVerts..(nExistingVerts + n - 1) :
          Cardinality({k \in 1..n : order[k] = iV}) = 1

C4_InsertVerticesIndicesAndSchedule ==
    \A t \in 1..2 :
        LET me == instances[t]
        IN  /\ Len(me.log) = Len(me.given)
            /\ \A c \in 1..Len(me.log) :
                  LET nExisting == me.log[c].nExistingVerts
                      input     == me.given[c]
                      n         == Len(input)
                      order     == me.log[c].insertVertex
                  IN  /\ nExisting + n <= Len(me.vertices)
                      /\ \A k \in 0..(n - 1) :
                            At(me.vertices, nExisting + k) = At(input, k)
                      /\ InsertedOnce(order, nExisting, n)
                      /\ me.vertexInsertionOrder = "AsProvided"
                            => \A k \in 1..n : order[k] = nExisting + (k - 1)

\* a Randomized mesh that already held vertices of an earlier call was
\* given three more and inserted them in an order other than the given
\* one, and an AsProvided mesh was given three as well
C4_Witness ==
    /\ \E t \in 1..2 : \E c \in 2..Len(instances[t].log) :
          /\ instances[t].vertexInsertionOrder = "Randomized"
          /\ instances[t].log[c].nExistingVerts > Len(SuperTriangle)
          /\ Len(instances[t].given[c]) = MaxNew
          /\ instances[t].log[c].insertVertex
                # AsProvidedOrder(instances[t].log[c].nExistingVerts, MaxNew)
    /\ \E t \in 1..2 : \E c \in 1..Len(instances[t].log) :
          /\ instances[t].vertexInsertionOrder = "AsProvided"
          /\ Len(instances[t].given[c]) = MaxNew

(***************************************************************************)
(* C5: once FindDuplicates has returned, duplicates lists in increasing    *)
(* order exactly the indices i for which some j < i has identical (x, y),  *)
(* mapping has one entry per vertex, and mapping[i] is the number of       *)
(* non-duplicate indices smaller than the first index that holds the same  *)
(* (x, y) as i.                                                            *)
(***************************************************************************)
IsDuplicate(v, i) == \E j \in 0..(i - 1) : At(v, j) = At(v, i)

FirstSame(v, i) ==
    CHOOSE j \in 0..i : /\ At(v, j) = At(v, i)
                        /\ \A k \in 0..(j - 1) : At(v, k) # At(v, i)

FindDuplicatesReturned == dupPc \in {"remove", "remap", "done"}

C5_FindDuplicatesMappingAndList ==
    FindDuplicatesReturned =>
        LET n == Len(verticesIn)
        IN  /\ Len(di.mapping) = n
            /\ \A k \in 1..(Len(di.duplicates) - 1) :
                  di.duplicates[k] < di.duplicates[k + 1]
            /\ {di.duplicates[k] : k \in 1..Len(di.duplicates)}
                  = {i \in 0..(n - 1) : IsDuplicate(verticesIn, i)}
            /\ \A i \in 0..(n - 1) :
                  At(di.mapping, i) =
                      Cardinality({j \in 0..(FirstSame(verticesIn, i) - 1) :
                                      ~IsDuplicate(verticesIn, j)})

\* the example: five vertices of which 0 and 3 are equal
C5_Witness ==
    /\ FindDuplicatesReturned
    /\ Len(verticesIn) = 5
    /\ di.mapping = <<0, 1, 2, 0, 3>>
    /\ di.duplicates = <<3>>

(***************************************************************************)
(* C6: after RemoveDuplicatesAndRemapEdges the vertex vector holds the     *)
(* first occurrences in their original relative order, no two vertices     *)
(* have identical (x, y), newVertices[mapping[i]] has the coordinates of   *)
(* oldVertices[i] for every original index i, and the k-th edge's          *)
(* endpoints are mapping[] of the k-th original edge's endpoints, the      *)
(* number of edges being unchanged.                                        *)
(***************************************************************************)
RECURSIVE FirstOccurrences(_, _)
FirstOccurrences(v, i) ==
    IF i >= Len(v) THEN <<>>
    ELSE (IF IsDuplicate(v, i) THEN <<>> ELSE <<At(v, i)>>)
             \o FirstOccurrences(v, i + 1)

C6_RemoveDuplicatesAndRemapEdges ==
    dupPc = "done" =>
        /\ dupVertices = FirstOccurrences(verticesIn, 0)
        /\ \A a, b \in 1..Len(dupVertices) :
              dupVertices[a] = dupVertices[b] => a = b
        /\ \A i \in 0..(Len(verticesIn) - 1) :
              /\ At(di.mapping, i) < Len(dupVertices)
              /\ At(dupVertices, At(di.mapping, i)) = At(verticesIn, i)
        /\ Len(dupEdges) = Len(edgesGiven)
        /\ \A k \in 1..Len(edgesGiven) :
              {dupEdges[k][1], dupEdges[k][2]}
                  = {At(di.mapping, edgesGiven[k][1]),
                     At(di.mapping, edgesGiven[k][2])}

\* vertices (0,0), (1,0), (0,0), (0,1) with every edge over them: the
\* third vertex is removed, the edges (0,3) and (1,2) become (0,2) and (0,1)
C6_Witness ==
    /\ dupPc = "done"
    /\ verticesIn = << <<0, 0>>, <<1, 0>>, <<0, 0>>, <<0, 1>> >>
    /\ edgesGiven = AllEdges(0, 1, 4)
    /\ dupVertices = << <<0, 0>>, <<1, 0>>, <<0, 1>> >>
    /\ di.mapping = <<0, 1, 0, 2>>
    /\ di.duplicates = <<2>>
    /\ dupEdges[3] = <<0, 2>>
    /\ dupEdges[4] = <<0, 1>>

(***************************************************************************)
(* C7: insertEdges calls insertEdge once per input edge, in input order,   *)
(* with both endpoints offset by nTargetVerts, and calls eraseDummies      *)
(* exactly once, after the last insertEdge, also for an empty range.       *)
(***************************************************************************)
\* the insertEdge calls due for the first n edges of the range
DueInsertCalls(n) ==
    [k \in 1..n |-> <<"insertEdge", Edge(edgesIn[k][1] + nTargetVerts,
                                         edgesIn[k][2] + nTargetVerts)>>]

C7_InsertEdgesCallOrder ==
    /\ pc = "insertEdges" => calls = DueInsertCalls(first)
    /\ (pc = "idle" /\ nBatches > 0) =>
          calls = DueInsertCalls(Len(edgesIn)) \o <<<<"eraseDummies">>>>

\* insertEdges returned from a range of two different edges, the second
\* given end before start
C7_Witness ==
    /\ pc = "idle"
    /\ edgesIn = <<<<0, 3>>, <<4, 3>>>>
    /\ calls = <<<<"insertEdge", <<3, 6>>>>, <<"insertEdge", <<6, 7>>>>,
                 <<"eraseDummies">>>>

OuterEdges == {TargetEdgeNoOffset(<<3, 4>>), TargetEdgeNoOffset(<<4, 5>>),
               TargetEdgeNoOffset(<<3, 5>>)}

HoleEdges == {TargetEdgeNoOffset(<<6, 7>>), TargetEdgeNoOffset(<<7, 8>>),
              TargetEdgeNoOffset(<<6, 8>>)}

\* the boundary loop was inserted k times, the hole loop once, nothing else
LoopsInserted(k) ==
    inserted = [e \in OuterEdges \cup HoleEdges |-> IF e \in OuterEdges THEN k ELSE 1]

OutsideTris == {iT \in DOMAIN triangles : VerticesOf(triangles[iT]) \cap {0, 1, 2} # {}}

HoleTris == {iT \in DOMAIN triangles : VerticesOf(triangles[iT]) = {6, 7, 8}}

BetweenTris == DOMAIN triangles \ (OutsideTris \cup HoleTris)

KeptTris == DOMAIN triangles \ {toErase[k] : k \in DOMAIN toErase}

C9_DoubledBoundaryKeepsHole ==
    /\ (pc = "erased" /\ LoopsInserted(1)) => KeptTris = BetweenTris
    /\ (pc = "erased" /\ LoopsInserted(2)) => KeptTris = HoleTris

\* the erasure after the boundary loop went in twice and the hole loop once
C9_Witness ==
    /\ pc = "erased"
    /\ LoopsInserted(2)
    /\ overlapCount = [e \in OuterEdges |-> 1]
    /\ \A iT \in BetweenTris : triDepths[iT] = 2

\* C9 as stated: the doubled boundary leaves what the single one leaves
C9_DoubledBoundaryKeepsSameRegions ==
    (pc = "erased" /\ LoopsInserted(2)) => KeptTris = BetweenTris

(***************************************************************************)
(* C11: in the depth map returned by either variant, any two neighbouring  *)
(* triangles reachable from the seed whose shared edge is not in           *)
(* fixedEdges have the same depth. Stated here for overlap counts that     *)
(* cannot wrap the depth type.                                             *)
(***************************************************************************)
\* neighbouring triangles, both reachable, with no fixed edge between them
FreeNeighbours ==
    {p \in ReachableTris \X ReachableTris :
        /\ p[2] \in NeighborsOf(triangles[p[1]])
        /\ SharedEdge(triangles[p[1]], triangles[p[2]]) \notin fixedEdges}

C11_SameDepthAcrossFreeEdges ==
    (pc = "done" /\ NoWrap) =>
        \A p \in FreeNeighbours : triDepths[p[1]] = triDepths[p[2]]

(***************************************************************************)
(* C12: when a PeelLayer call with layer depth d returns, every triangle   *)
(* it returns is a neighbour, across an edge in fixedEdges, of a triangle  *)
(* this call set to d, has a depth greater than d, and was not itself set  *)
(* to d by this call; in the overlap variant the depth returned with it is *)
(* d + overlapCount[e] + 1 for such a crossed edge e (d + 1 when e has no  *)
(* entry), taken modulo the range of LayerDepth.                           *)
(***************************************************************************)
\* the loop of PeelLayer has ended: behindBoundary is what the call returns
PeelLayerReturns == pc = "peel" /\ seeds = <<>>

ReturnedTris ==
    IF useOverlap THEN DOMAIN behindBoundary ELSE behindBoundary

\* the fixed edges between iN and the triangles this call set to its depth
CrossedEdges(iN) ==
    {e \in fixedEdges :
        \E iT \in peeled : /\ iN \in NeighborsOf(triangles[iT])
                           /\ e = SharedEdge(triangles[iT], triangles[iN])}

\* layerDepth + overlapCount[e] + 1 over the integers
TargetDepth(d, e) ==
    d + (IF e \in DOMAIN overlapCount THEN overlapCount[e] ELSE 0) + 1

ReturnedBehindLayer(iN) ==
    /\ CrossedEdges(iN) # {}
    /\ triDepths[iN] > layerDepth
    /\ iN \notin peeled

LayersInOrder ==
    \A k \in 1..Len(peelCalls) : peelCalls[k].layerDepth = k - 1

\* the call with layer depth r[2], once made, had triangle r[1] as a seed
PassedToItsLayer(r) ==
    r[2] < Len(peelCalls) => r[1] \in peelCalls[r[2] + 1].seeds

\* the call with layer depth r[2] was made before the loop was left
NotLeftPending(r) == pc = "done" => r[2] < Len(peelCalls)

BothReturned == pc = "done" /\ returned # <<>>

C14_EmptyOverlapSameAsPlain ==
    (/\ BothReturned
     /\ overlapCount = EmptyMap
     /\ returned[1].useOverlap # useOverlap)
        => triDepths = returned[1].triDepths

\* the two variants have returned, the overlap variant first, for
\* arguments with a region behind two boundaries
C14_Witness ==
    /\ BothReturned
    /\ overlapCount = EmptyMap
    /\ returned[1].useOverlap /\ ~useOverlap
    /\ \E iT \in DOMAIN triangles : triDepths[iT] = 2

(***************************************************************************)
(* C15: the depth vector returned by CalculateTriangleDepths (either       *)
(* variant) is a function of seed, triangles, fixedEdges and overlapCount  *)
(* only: two calls of the same variant on the same arguments return the    *)
(* same vector, in whatever order the seed sets were iterated and the      *)
(* fixed edges examined. Stated here for overlap counts that cannot wrap   *)
(* the depth type.                                                         *)
(***************************************************************************)
C15_SameArgumentsSameDepths ==
    (BothReturned /\ returned[1].useOverlap = useOverlap)
        => triDepths = returned[1].triDepths

(***************************************************************************)
(* C16: during CalculateTriangleDepths (either variant) a PeelLayer call   *)
(* with layer depth d changes of its arguments only triDepths, writes only *)
(* the value d, and leaves the depth of every triangle whose depth was     *)
(* <= d when the call was entered as it was: a depth assigned by one layer *)
(* is not overwritten by a later one. Stated here for overlap counts that  *)
(* cannot wrap the depth type.                                             *)
(***************************************************************************)
\* the triangles whose depth the running PeelLayer call has changed
Rewritten == {iT \in DOMAIN triDepths : triDepths[iT] # entryDepths[iT]}

C16_PeelLayerWritesOnlyDeeperTriangles ==
    (pc = "peel" /\ NoWrap) =>
        /\ DOMAIN triDepths = DOMAIN entryDepths
        /\ \A iT \in Rewritten :
              triDepths[iT] = layerDepth /\ entryDepths[iT] > layerDepth

=============================================================================
